---------------------------- MODULE Spec2Model ----------------------------
(***************************************************************************)
(* IP geolocation service: the validator (app/core/validators.py), the     *)
(* error taxonomy (app/core/exceptions.py), the ip-api.com adapter         *)
(* (app/services/ip_providers/ip_api.py), the service                      *)
(* (app/services/geolocation.py), the client-IP dependency and the HTTP    *)
(* boundary (app/main.py, app/api/v1/endpoints/geolocation.py).            *)
(*                                                                         *)
(* A Python str is a sequence of one-character strings.  None is the       *)
(* one-element sequence <<"None">>, which is no str.                       *)
(***************************************************************************)
EXTENDS Integers, Sequences, FiniteSets, TLC

VARIABLES
    ianaRevised,  \* the interpreter's ipaddress tables: FALSE = up to 3.12.3, TRUE = revised IANA tables
    pc,           \* position of the function call / request task
    raw,          \* the str handed to validate_ip_address / geolocate_ip
    vres,         \* outcome of validate_ip_address(raw)
    pub,          \* return value of is_valid_public_ipv4(raw)
    route,        \* which endpoint serves the request
    req,          \* request transport state: headers and peer
    provider,     \* GeolocationService.provider (its name)
    calls,        \* arguments of the provider.get_geolocation calls of this lookup
    client,       \* HTTPClient._client, the singleton slot
    gets,         \* upstream GETs issued by this lookup
    upstream,     \* what client.get(url) produced for this lookup
    provOut,      \* outcome of provider.get_geolocation
    out,          \* outcome of the endpoint coroutine (GeolocationService.geolocate_ip)
    response,     \* the HTTP response sent at the boundary
    created,      \* how many httpx.AsyncClient instances get_client has constructed
    closing,      \* the instances whose aclose() has begun
    closer,       \* position of the close_client coroutine
    closes,       \* close_client calls begun so far
    tasks         \* concurrent request tasks: position, the client in hand, the outcome

vars == <<ianaRevised, pc, raw, vres, pub, route, req, provider, calls, client,
          gets, upstream, provOut, out, response, created, closing, closer, closes,
          tasks>>

\* the state of the concurrent tasks around the singleton client
lifecycleVars == <<closing, closer, closes, tasks>>

None == <<"None">>

-----------------------------------------------------------------------------
(* Bounds of the model *)

\* every str over Alphabet up to this length is an input
MaxStrLen == 3

\* request tasks that run concurrently with close_client
NumTasks == 2

\* close_client calls in one run
MaxCloses == 2

-----------------------------------------------------------------------------
(* Python str operations *)

Digits == {"0", "1", "2", "3", "4", "5", "6", "7", "8", "9"}
HexDigits == Digits \cup {"a", "b", "c", "d", "e", "f", "A", "B", "C", "D", "E", "F"}
Whitespace == {" ", "\t"}

DigitVal(c) ==
    CASE c = "0" -> 0 [] c = "1" -> 1 [] c = "2" -> 2 [] c = "3" -> 3
      [] c = "4" -> 4 [] c = "5" -> 5 [] c = "6" -> 6 [] c = "7" -> 7
      [] c = "8" -> 8 [] c = "9" -> 9

Chars(s) == {s[i] : i \in 1..Len(s)}

\* str.isascii() and str.isdigit(): non-empty and every character a decimal digit
IsDigits(s) == Len(s) > 0 /\ Chars(s) \subseteq Digits

\* int(s, 10) of a digit string
RECURSIVE ToInt(_)
ToInt(s) ==
    IF Len(s) = 0 THEN 0
    ELSE 10 * ToInt(SubSeq(s, 1, Len(s) - 1)) + DigitVal(s[Len(s)])

\* str.split(sep) for a one-character separator: "a..b" -> ["a", "", "b"], "" -> [""]
RECURSIVE Split(_, _)
Split(s, sep) ==
    IF \A i \in 1..Len(s) : s[i] # sep THEN <<s>>
    ELSE LET k == CHOOSE i \in 1..Len(s) :
                      s[i] = sep /\ \A j \in 1..(i - 1) : s[j] # sep
         IN  <<SubSeq(s, 1, k - 1)>> \o Split(SubSeq(s, k + 1, Len(s)), sep)

\* str.strip(): leading and trailing whitespace removed
RECURSIVE Strip(_)
Strip(s) ==
    IF Len(s) = 0 THEN s
    ELSE IF s[1] \in Whitespace THEN Strip(Tail(s))
    ELSE IF s[Len(s)] \in Whitespace THEN Strip(SubSeq(s, 1, Len(s) - 1))
    ELSE s

\* str.split() without a separator: the tokens between runs of whitespace
RECURSIVE Tokens(_)
Tokens(s) ==
    LET t == Strip(s)
    IN  IF Len(t) = 0 THEN <<>>
        ELSE IF \A i \in 1..Len(t) : t[i] \notin Whitespace THEN <<t>>
        ELSE LET k == CHOOSE i \in 1..Len(t) :
                          t[i] \in Whitespace /\ \A j \in 1..(i - 1) : t[j] \notin Whitespace
             IN  <<SubSeq(t, 1, k - 1)>> \o Tokens(SubSeq(t, k + 1, Len(t)))

\* " ".join(parts)
RECURSIVE JoinSpace(_)
JoinSpace(parts) ==
    IF Len(parts) = 0 THEN <<>>
    ELSE IF Len(parts) = 1 THEN parts[1]
    ELSE parts[1] \o <<" ">> \o JoinSpace(Tail(parts))

\* str(n) of a natural number
RECURSIVE FormatInt(_)
FormatInt(n) ==
    LET d == CASE n % 10 = 0 -> "0" [] n % 10 = 1 -> "1" [] n % 10 = 2 -> "2"
               [] n % 10 = 3 -> "3" [] n % 10 = 4 -> "4" [] n % 10 = 5 -> "5"
               [] n % 10 = 6 -> "6" [] n % 10 = 7 -> "7" [] n % 10 = 8 -> "8"
               [] n % 10 = 9 -> "9"
    IN  IF n < 10 THEN <<d>> ELSE FormatInt(n \div 10) \o <<d>>

Dotted(a, b, c, d) ==
    FormatInt(a) \o <<".">> \o FormatInt(b) \o <<".">> \o FormatInt(c) \o <<".">> \o FormatInt(d)

-----------------------------------------------------------------------------
(* The standard library's ipaddress.ip_address, as validate_ip_address     *)
(* uses it                                                                  *)

\* IPv4Address._parse_octet: -1 stands for the ValueError
ParseOctet(s) ==
    IF ~IsDigits(s) THEN -1
    ELSE IF Len(s) > 3 THEN -1
    ELSE IF Len(s) > 1 /\ s[1] = "0" THEN -1
    ELSE IF ToInt(s) > 255 THEN -1
    ELSE ToInt(s)

\* IPv4Address(s): the four octets, or <<>> for AddressValueError
ParseIPv4(s) ==
    LET octets == Split(s, ".")
    IN  IF Len(s) = 0 THEN <<>>
        ELSE IF Len(octets) # 4 THEN <<>>
        ELSE IF \E i \in 1..4 : ParseOctet(octets[i]) = -1 THEN <<>>
        ELSE [i \in 1..4 |-> ParseOctet(octets[i])]

\* IPv6Address._parse_hextet accepts the part
IsHextet(s) == Len(s) \in 1..4 /\ Chars(s) \subseteq HexDigits

\* IPv6Address(s) succeeds (IPv6Address._ip_int_from_string raises nothing)
IsIPv6(s) ==
    LET split == Split(s, ":")
        last  == split[Len(split)]
        embedded == "." \in Chars(last)
        \* an embedded dotted quad is replaced by its two hextets
        parts == IF embedded
                 THEN SubSeq(split, 1, Len(split) - 1) \o <<<<"0">>, <<"0">>>>
                 ELSE split
        n     == Len(parts)
        skips == {i \in 2..(n - 1) : Len(parts[i]) = 0}
    IN  /\ Len(s) > 0
        /\ Len(split) >= 3
        /\ embedded => ParseIPv4(last) # <<>>
        /\ n <= 9
        /\ Cardinality(skips) <= 1
        /\ IF skips # {}
           THEN LET k  == CHOOSE i \in skips : TRUE
                    hi == IF Len(parts[1]) = 0 THEN k - 2 ELSE k - 1
                    lo == IF Len(parts[n]) = 0 THEN n - k - 1 ELSE n - k
                IN  /\ Len(parts[1]) = 0 => hi = 0
                    /\ Len(parts[n]) = 0 => lo = 0
                    /\ 8 - (hi + lo) >= 1
                    /\ \A i \in 1..hi : IsHextet(parts[i])
                    /\ \A i \in (n - lo + 1)..n : IsHextet(parts[i])
           ELSE /\ n = 8
                /\ \A i \in 1..n : IsHextet(parts[i])

\* ipaddress.ip_address(s): IPv4Address first, then IPv6Address, else ValueError
IpAddress(s) ==
    IF ParseIPv4(s) # <<>> THEN [version |-> 4, octets |-> ParseIPv4(s), text |-> s]
    ELSE IF IsIPv6(s) THEN [version |-> 6, octets |-> <<>>, text |-> s]
    ELSE [version |-> 0, octets |-> <<>>, text |-> s]

\* the address lies in network a.b.c.d/len: the first len bits agree
InNet(o, net, len) ==
    LET whole == len \div 8
        bits  == len % 8
    IN  /\ \A i \in 1..whole : o[i] = net[i]
        /\ bits > 0 => o[whole + 1] \div 2 ^ (8 - bits) = net[whole + 1] \div 2 ^ (8 - bits)

\* IPv4Address.is_private: the IANA special-purpose registry, in its two revisions
IsPrivate(o, revised) ==
    /\ \/ InNet(o, <<0, 0, 0, 0>>, 8)
       \/ InNet(o, <<10, 0, 0, 0>>, 8)
       \/ InNet(o, <<127, 0, 0, 0>>, 8)
       \/ InNet(o, <<169, 254, 0, 0>>, 16)
       \/ InNet(o, <<172, 16, 0, 0>>, 12)
       \/ IF revised THEN InNet(o, <<192, 0, 0, 0>>, 24) ELSE InNet(o, <<192, 0, 0, 0>>, 29)
       \/ InNet(o, <<192, 0, 0, 170>>, 31)
       \/ InNet(o, <<192, 0, 2, 0>>, 24)
       \/ InNet(o, <<192, 168, 0, 0>>, 16)
       \/ InNet(o, <<198, 18, 0, 0>>, 15)
       \/ InNet(o, <<198, 51, 100, 0>>, 24)
       \/ InNet(o, <<203, 0, 113, 0>>, 24)
       \/ InNet(o, <<240, 0, 0, 0>>, 4)
       \/ o = <<255, 255, 255, 255>>
    /\ ~(revised /\ (o = <<192, 0, 0, 9>> \/ o = <<192, 0, 0, 10>>))

IsLoopback(o)    == InNet(o, <<127, 0, 0, 0>>, 8)
IsReserved(o)    == InNet(o, <<240, 0, 0, 0>>, 4)
IsMulticast(o)   == InNet(o, <<224, 0, 0, 0>>, 4)
IsLinkLocal(o)   == InNet(o, <<169, 254, 0, 0>>, 16)
IsUnspecified(o) == o = <<0, 0, 0, 0>>

-----------------------------------------------------------------------------
(* app/core/exceptions.py: each exception with the message, type and       *)
(* status its constructor fixes                                             *)

\* the parts of a formatted message: literal text, an interpolated str, an int
Lit(t) == [lit |-> t]
Str(x) == [str |-> x]
Num(n) == [int |-> n]

InvalidIPError(ip) ==
    [exc |-> "InvalidIPError", message |-> <<Lit("Invalid IPv4 address: "), Str(ip)>>,
     error_type |-> "invalid_ip", status_code |-> 400]

PrivateIPError(ip) ==
    [exc |-> "PrivateIPError",
     message |-> <<Lit("Cannot geolocate private/reserved IP: "), Str(ip)>>,
     error_type |-> "private_ip", status_code |-> 422]

IPNotFoundError(ip) ==
    [exc |-> "IPNotFoundError",
     message |-> <<Lit("Geolocation data not found for IP: "), Str(ip)>>,
     error_type |-> "ip_not_found", status_code |-> 404]

RateLimitError(name) ==
    [exc |-> "RateLimitError",
     message |-> <<Lit("Rate limit exceeded for provider: "), Lit(name)>>,
     error_type |-> "rate_limit_exceeded", status_code |-> 429]

\* reason is itself a sequence of message parts
ProviderUnavailableError(name, reason) ==
    [exc |-> "ProviderUnavailableError",
     message |-> <<Lit("Geolocation provider "), Lit(name), Lit(" is unavailable: ")>> \o reason,
     error_type |-> "provider_unavailable", status_code |-> 503]

ClientIPDetectionError ==
    [exc |-> "ClientIPDetectionError",
     message |-> <<Lit("Unable to determine client IP address")>>,
     error_type |-> "client_ip_detection_failed", status_code |-> 400]

\* the subclasses of GeolocationError
GeolocationErrors ==
    {"InvalidIPError", "PrivateIPError", "IPNotFoundError", "RateLimitError",
     "ProviderUnavailableError", "ClientIPDetectionError"}

\* any other exception, known by its type's name
OtherException(name) == [exc |-> name]

\* a function call's outcome: a returned value or a raised exception
Return(v) == [kind |-> "return", value |-> v]
Raise(e)  == [kind |-> "raise", error |-> e]
NoOutcome == [kind |-> "none"]

-----------------------------------------------------------------------------
(* app/core/validators.py *)

\* validate_ip_address without its is_multicast check
validate_ip_address_no_multicast(ip, revised) ==
    LET ip_obj == IpAddress(ip)
        o      == ip_obj.octets
    IN  IF ip_obj.version # 4 THEN Raise(InvalidIPError(ip))
        ELSE IF IsPrivate(o, revised) \/ IsLoopback(o) \/ IsReserved(o)
                \/ IsLinkLocal(o) \/ IsUnspecified(o) THEN Raise(PrivateIPError(ip))
        ELSE Return(o)

\* validate_ip_address rejecting every address that is not is_global
\* (the shared address space 100.64.0.0/10 as well)
validate_ip_address_not_global(ip, revised) ==
    LET ip_obj == IpAddress(ip)
        o      == ip_obj.octets
    IN  IF ip_obj.version # 4 THEN Raise(InvalidIPError(ip))
        ELSE IF IsPrivate(o, revised) \/ IsLoopback(o) \/ IsReserved(o) \/ IsMulticast(o)
                \/ IsLinkLocal(o) \/ IsUnspecified(o) \/ InNet(o, <<100, 64, 0, 0>>, 10)
             THEN Raise(PrivateIPError(ip))
        ELSE Return(o)

\* validate_ip_address without its isinstance(ip_obj, IPv4Address) check: an
\* IPv6Address reaches the is_* properties (::1 is loopback, :: is unspecified)
validate_ip_address_no_isinstance(ip, revised) ==
    LET ip_obj == IpAddress(ip)
        o      == ip_obj.octets
    IN  IF ip_obj.version = 0 THEN Raise(InvalidIPError(ip))
        ELSE IF ip_obj.version = 6
             THEN IF ip \in {<<":", ":", "1">>, <<":", ":">>}
                  THEN Raise(PrivateIPError(ip)) ELSE Return(<<>>)
        ELSE IF IsPrivate(o, revised) \/ IsLoopback(o) \/ IsReserved(o) \/ IsMulticast(o)
                \/ IsLinkLocal(o) \/ IsUnspecified(o) THEN Raise(PrivateIPError(ip))
        ELSE Return(o)

validate_ip_address(ip, revised) ==
    LET ip_obj == IpAddress(ip)
        o      == ip_obj.octets
    IN  IF ip_obj.version = 0 THEN Raise(InvalidIPError(ip))
        ELSE IF ip_obj.version # 4 THEN Raise(InvalidIPError(ip))
        ELSE IF IsPrivate(o, revised) THEN Raise(PrivateIPError(ip))
        ELSE IF IsLoopback(o) THEN Raise(PrivateIPError(ip))
        ELSE IF IsReserved(o) THEN Raise(PrivateIPError(ip))
        ELSE IF IsMulticast(o) THEN Raise(PrivateIPError(ip))
        ELSE IF IsLinkLocal(o) THEN Raise(PrivateIPError(ip))
        ELSE IF IsUnspecified(o) THEN Raise(PrivateIPError(ip))
        ELSE Return(o)

\* is_valid_public_ipv4 whose except clause names InvalidIPError alone
is_valid_public_ipv4_narrow_except(ip, revised) ==
    LET r == validate_ip_address(ip, revised)
    IN  IF r.kind = "return" THEN Return(TRUE)
        ELSE IF r.error.exc = "InvalidIPError" THEN Return(FALSE)
        ELSE r

is_valid_public_ipv4(ip, revised) ==
    LET r == validate_ip_address(ip, revised)
    IN  IF r.kind = "return" THEN Return(TRUE)
        ELSE IF r.error.exc \in {"InvalidIPError", "PrivateIPError"} THEN Return(FALSE)
        ELSE r


-----------------------------------------------------------------------------
(* JSON values of the upstream body, and the dict operations on them *)

JStr(x) == [t |-> "str", s |-> x]
JNum(n) == [t |-> "num", n |-> n]
JNull   == [t |-> "null"]

\* dict.get called without its default: a missing key gives None
Get_without_default(data, key, default) == IF key \in DOMAIN data THEN data[key] ELSE JNull

\* dict.get(key, default); the default is a JSON value here
Get(data, key, default) == IF key \in DOMAIN data THEN data[key] ELSE default

\* Python truth value of a JSON value
Truthy(v) ==
    CASE v.t = "str"  -> Len(v.s) > 0
      [] v.t = "num"  -> v.n # 0
      [] v.t = "null" -> FALSE

-----------------------------------------------------------------------------
(* app/models/responses.py: GeolocationResponse and the validation its     *)
(* field types perform                                                      *)

\* ip: IPvAnyAddress
IpFieldOk(v) ==
    \/ v.t = "str" /\ IpAddress(v.s).version # 0
    \/ v.t = "num" /\ v.n \in 0..255

IpFieldValue(v) ==
    IF v.t = "str" THEN IpAddress(v.s)
    ELSE [version |-> 4, octets |-> <<0, 0, 0, v.n>>, text |-> Dotted(0, 0, 0, v.n)]

\* a str field takes a str only
StrFieldOk(v) == v.t = "str"

\* zip_code: str | None
OptStrFieldOk(v) == v.t \in {"str", "null"}
OptStrFieldValue(v) == IF v.t = "str" THEN v.s ELSE None

\* latitude, longitude: float, from a number or a numeric str
FloatFieldOk(v) == v.t = "num" \/ (v.t = "str" /\ IsDigits(v.s))
FloatFieldValue(v) == IF v.t = "num" THEN v.n ELSE ToInt(v.s)

\* GeolocationResponse(**kw): the model, or ValidationError
GeolocationResponse(kw) ==
    IF /\ IpFieldOk(kw.ip)
       /\ \A f \in {"country", "country_code", "region", "region_code", "city",
                    "timezone", "isp", "organization", "as_number", "as_name"} :
              StrFieldOk(kw[f])
       /\ OptStrFieldOk(kw.zip_code)
       /\ FloatFieldOk(kw.latitude)
       /\ FloatFieldOk(kw.longitude)
    THEN Return([ip |-> IpFieldValue(kw.ip),
                 country |-> kw.country.s,
                 country_code |-> kw.country_code.s,
                 region |-> kw.region.s,
                 region_code |-> kw.region_code.s,
                 city |-> kw.city.s,
                 zip_code |-> OptStrFieldValue(kw.zip_code),
                 latitude |-> FloatFieldValue(kw.latitude),
                 longitude |-> FloatFieldValue(kw.longitude),
                 timezone |-> kw.timezone.s,
                 isp |-> kw.isp.s,
                 organization |-> kw.organization.s,
                 as_number |-> kw.as_number.s,
                 as_name |-> kw.as_name.s])
    ELSE Raise(OtherException("ValidationError"))

-----------------------------------------------------------------------------
(* app/services/ip_providers/ip_api.py: IPAPIProvider *)

\* the name property
IPAPIProviderName == "ip-api.com"

\* the expression for as_number giving "" for a value without token
AsNumberExpr_empty_without_token(data) ==
    LET v == Get(data, "as", JStr(<<>>))
    IN  IF ~Truthy(v) THEN Return(JStr(<<>>))
        ELSE IF v.t # "str" THEN Raise(OtherException("AttributeError"))
        ELSE IF Len(Tokens(v.s)) = 0 THEN Return(JStr(<<>>))
        ELSE Return(JStr(Tokens(v.s)[1]))

\* the expression for as_number: data.get("as", "").split()[0] if data.get("as") else ""
AsNumberExpr(data) ==
    LET v == Get(data, "as", JStr(<<>>))
    IN  IF ~Truthy(v) THEN Return(JStr(<<>>))
        ELSE IF v.t # "str" THEN Raise(OtherException("AttributeError"))
        ELSE IF Len(Tokens(v.s)) = 0 THEN Raise(OtherException("IndexError"))
        ELSE Return(JStr(Tokens(v.s)[1]))

\* the expression for as_name without the [1:] slice: every token is joined
AsNameExpr_all_tokens(data) ==
    LET v == Get(data, "as", JStr(<<>>))
    IN  IF ~Truthy(v) THEN Return(JStr(<<>>))
        ELSE IF v.t # "str" THEN Raise(OtherException("AttributeError"))
        ELSE Return(JStr(JoinSpace(Tokens(v.s))))

\* the expression for as_name: " ".join(data.get("as", "").split()[1:]) if data.get("as") else ""
AsNameExpr(data) ==
    LET v == Get(data, "as", JStr(<<>>))
    IN  IF ~Truthy(v) THEN Return(JStr(<<>>))
        ELSE IF v.t # "str" THEN Raise(OtherException("AttributeError"))
        ELSE IF Len(Tokens(v.s)) = 0 THEN Return(JStr(<<>>))
        ELSE Return(JStr(JoinSpace(Tail(Tokens(v.s)))))

\* the mapping of the parsed dict onto GeolocationResponse; the keyword
\* arguments are evaluated in order, then the constructor validates
MapResponse(data) ==
    IF "query" \notin DOMAIN data THEN Raise(OtherException("KeyError"))
    ELSE IF AsNumberExpr(data).kind = "raise" THEN AsNumberExpr(data)
    ELSE IF AsNameExpr(data).kind = "raise" THEN AsNameExpr(data)
    ELSE GeolocationResponse(
             [ip |-> data["query"],
              country |-> Get(data, "country", JStr(<<>>)),
              country_code |-> Get(data, "countryCode", JStr(<<>>)),
              region |-> Get(data, "regionName", JStr(<<>>)),
              region_code |-> Get(data, "region", JStr(<<>>)),
              city |-> Get(data, "city", JStr(<<>>)),
              zip_code |-> Get(data, "zip", JNull),
              latitude |-> Get(data, "lat", JNum(0)),
              longitude |-> Get(data, "lon", JNum(0)),
              timezone |-> Get(data, "timezone", JStr(<<>>)),
              isp |-> Get(data, "isp", JStr(<<>>)),
              organization |-> Get(data, "org", JStr(<<>>)),
              as_number |-> AsNumberExpr(data).value,
              as_name |-> AsNameExpr(data).value])

\* the try block treating every status from 400 on as a provider failure
TryBlock_fails_from_400(ip, got) ==
    IF got.kind = "exception" THEN Raise(OtherException(got.exc))
    ELSE IF got.status_code = 429 THEN Raise(RateLimitError(IPAPIProviderName))
    ELSE IF got.status_code >= 400
         THEN Raise(ProviderUnavailableError(IPAPIProviderName,
                                             <<Lit("HTTP "), Num(got.status_code)>>))
    ELSE IF got.body.json = "invalid"
         THEN Raise(ProviderUnavailableError(IPAPIProviderName,
                                             <<Lit("Invalid JSON response: "), Lit("JSONDecodeError")>>))
    ELSE IF got.body.json # "dict" THEN Raise(OtherException("AttributeError"))
    ELSE IF Get(got.body.data, "status", JNull) = JStr(<<"f", "a", "i", "l">>)
         THEN Raise(IPNotFoundError(ip))
    ELSE MapResponse(got.body.data)

\* the body of the try block once client.get(url) has produced `got`: an
\* exception of the transport, or a response [status_code, body]; the body is
\* [json |-> "invalid"], a JSON value that is no dict [json |-> "list"], or
\* [json |-> "dict", data |-> ...]
TryBlock(ip, got) ==
    IF got.kind = "exception" THEN Raise(OtherException(got.exc))
    ELSE IF got.status_code = 429 THEN Raise(RateLimitError(IPAPIProviderName))
    ELSE IF got.status_code >= 500
         THEN Raise(ProviderUnavailableError(IPAPIProviderName,
                                             <<Lit("HTTP "), Num(got.status_code)>>))
    ELSE IF got.body.json = "invalid"
         THEN Raise(ProviderUnavailableError(IPAPIProviderName,
                                             <<Lit("Invalid JSON response: "), Lit("JSONDecodeError")>>))
    ELSE IF got.body.json # "dict" THEN Raise(OtherException("AttributeError"))
    ELSE IF Get(got.body.data, "status", JNull) = JStr(<<"f", "a", "i", "l">>)
         THEN Raise(IPNotFoundError(ip))
    ELSE MapResponse(got.body.data)

\* the first except clause naming httpx.TimeoutException alone
NetworkErrors_timeouts_only ==
    {"TimeoutException", "ConnectTimeout", "ReadTimeout", "WriteTimeout", "PoolTimeout"}

\* httpx.TimeoutException and its subclasses, and httpx.ConnectError
NetworkErrors == {"TimeoutException", "ConnectTimeout", "ReadTimeout", "WriteTimeout",
                  "PoolTimeout", "ConnectError"}

\* the except clauses without the clause that re-raises the adapter's own
\* exceptions: they fall into the catch-all
ExceptClauses_no_reraise(inner) ==
    IF inner.kind # "raise" THEN inner
    ELSE IF inner.error.exc \in NetworkErrors
         THEN Raise(ProviderUnavailableError(IPAPIProviderName,
                                             <<Lit("Network error: "), Lit(inner.error.exc)>>))
    ELSE Raise(ProviderUnavailableError(IPAPIProviderName,
                                        <<Lit("Unexpected error: "), Lit(inner.error.exc)>>))

\* the except clauses without the final except Exception
ExceptClauses_no_catch_all(inner) ==
    IF inner.kind # "raise" THEN inner
    ELSE IF inner.error.exc \in NetworkErrors
         THEN Raise(ProviderUnavailableError(IPAPIProviderName,
                                             <<Lit("Network error: "), Lit(inner.error.exc)>>))
    ELSE inner

\* the except clauses applied to what the try block produced
ExceptClauses(inner) ==
    IF inner.kind # "raise" THEN inner
    ELSE IF inner.error.exc \in NetworkErrors
         THEN Raise(ProviderUnavailableError(IPAPIProviderName,
                                             <<Lit("Network error: "), Lit(inner.error.exc)>>))
    ELSE IF inner.error.exc \in {"RateLimitError", "IPNotFoundError", "ProviderUnavailableError"}
         THEN inner
    ELSE Raise(ProviderUnavailableError(IPAPIProviderName,
                                        <<Lit("Unexpected error: "), Lit(inner.error.exc)>>))

\* IPAPIProvider.get_geolocation from the completion of client.get(url) on
get_geolocation(ip, got) == ExceptClauses(TryBlock(ip, got))

\* except clauses that send the request once more when the try block raised
upstream_calls_after_retry(n, inner) == IF inner.kind = "raise" THEN n + 1 ELSE n

\* the number of client.get calls of one get_geolocation once the try block
\* has produced `inner`, n being the calls made before: every except clause
\* raises and none calls client.get again
upstream_calls_after(n, inner) == n

\* check_health without its except clause
check_health_no_except(got) ==
    IF got.kind = "exception" THEN Raise(OtherException(got.exc))
    ELSE Return(got.status_code = 200)

\* IPAPIProvider.check_health from the completion of its client.get on: the
\* body of the response is not read
check_health(got) ==
    IF got.kind = "exception" THEN Return(FALSE)
    ELSE Return(got.status_code = 200)

\* get_client constructing an AsyncClient at every call
get_client_always_new(slot, made) == made + 1

\* HTTPClient.get_client: the instance returned, which is the slot after the
\* call (0 is None, n > 0 the n-th AsyncClient constructed), `made` being the
\* instances constructed so far
get_client(slot, made) == IF slot = 0 THEN made + 1 ELSE slot

\* the instances constructed once get_client has returned `handed`
constructed(made, handed) == IF handed > made THEN handed ELSE made

-----------------------------------------------------------------------------
(* Inputs *)

\* octet values on both sides of every block edge of the registry
SweepFirst  == {0, 8, 10, 11, 100, 127, 169, 172, 192, 198, 203, 223, 224, 239, 240, 255}
SweepSecond == {0, 15, 16, 18, 20, 31, 32, 51, 64, 168, 254, 255}
SweepThird  == {0, 2, 3, 100, 113, 255}
SweepFourth == {0, 1, 9, 10, 11, 170, 255}

SweepQuads ==
    {Dotted(a, b, c, d) : a \in SweepFirst, b \in SweepSecond, c \in SweepThird, d \in SweepFourth}

Alphabet == {"0", "1", ".", ":", "a", " "}

\* every str over Alphabet of length at most n
RECURSIVE StringsUpTo(_)
StringsUpTo(n) ==
    IF n = 0 THEN {<<>>}
    ELSE LET shorter == StringsUpTo(n - 1)
         IN  shorter \cup {Append(s, c) : s \in {t \in shorter : Len(t) = n - 1}, c \in Alphabet}

\* strings the tests and the validator's error paths are about
MalformedSamples ==
    { <<"2", "5", "6", ".", "1", ".", "1", ".", "1">>,
      <<"1", ".", "1", ".", "1">>,
      <<"1", ".", "1", ".", "1", ".", "1", ".", "1">>,
      <<"0", "1", ".", "1", ".", "1", ".", "1">>,
      <<"1", ".", ".", "1", ".", "1">>,
      <<"n", "o", "t", "-", "a", "n", "-", "i", "p">>,
      <<" ", "8", ".", "8", ".", "8", ".", "8">>,
      <<"8", ".", "8", ".", "8", ".", "8", " ">>,
      <<"1", ".", "1", ".", "1", ".", "a">>,
      <<"1", ".", "1", ".", "1", ".", "1", "0", "0", "0">>,
      <<"8", ".", "8", ".", "8", ".", "8", "/", "3", "2">>,
      <<":", ":", "f", "f", "f", "f", ":", "1", "0", ".", "0", ".", "0", ".", "1">>,
      <<"2", "0", "0", "1", ":", "4", "8", "6", "0", ":", "4", "8", "6", "0", ":", ":", "8", "8", "8", "8">>,
      <<"f", "e", "8", "0", ":", ":", "1">>,
      <<"f", "c", "0", "0", ":", ":", "1">>,
      <<"1", ":", "2", ":", "3", ":", "4", ":", "5", ":", "6", ":", "7", ":", "8">>,
      <<":", ":", "1", ":", "1", "0", ".", "0", ".", "0", ".", "2", "5", "6">> }

ValidatorInputs == SweepQuads \cup StringsUpTo(MaxStrLen) \cup MalformedSamples

-----------------------------------------------------------------------------
(* The validator called on its own: validate_ip_address(raw), then         *)
(* is_valid_public_ipv4(raw)                                                *)

Tasks == 1..NumTasks

IdleTask == [pc |-> "idle", held |-> 0, stale |-> FALSE, result |-> NoOutcome]

\* the class attribute _client = None, no close_client running, no task
ClientAtStart ==
    /\ created = 0
    /\ closing = {}
    /\ closer = "idle"
    /\ closes = 0
    /\ tasks = [t \in Tasks |-> IdleTask]

NoRequest == [xff |-> None, xreal |-> None, peer |-> None]
NoRoute == "-"

InitValidator ==
    /\ ianaRevised \in BOOLEAN
    /\ raw \in ValidatorInputs
    /\ pc = "v_start"
    /\ vres = NoOutcome
    /\ pub = NoOutcome
    /\ route = NoRoute
    /\ req = NoRequest
    /\ provider = NoRoute
    /\ calls = <<>>
    /\ client = 0
    /\ gets = 0
    /\ upstream = NoOutcome
    /\ provOut = NoOutcome
    /\ out = NoOutcome
    /\ response = NoOutcome
    /\ ClientAtStart

CallValidate ==
    /\ pc = "v_start"
    /\ vres' = validate_ip_address(raw, ianaRevised)
    /\ pc' = "v_validated"
    /\ UNCHANGED <<ianaRevised, raw, pub, route, req, provider, calls, client, gets,
                   upstream, provOut, out, response>>
    /\ UNCHANGED <<created, lifecycleVars>>

CallIsValidPublic ==
    /\ pc = "v_validated"
    /\ pub' = is_valid_public_ipv4(raw, ianaRevised)
    /\ pc' = "v_done"
    /\ UNCHANGED <<ianaRevised, raw, vres, route, req, provider, calls, client, gets,
                   upstream, provOut, out, response>>
    /\ UNCHANGED <<created, lifecycleVars>>

NextValidator == CallValidate \/ CallIsValidPublic

SpecValidator == InitValidator /\ [][NextValidator]_vars

-----------------------------------------------------------------------------
(* app/dependencies/client_ip.py *)

\* a header or peer value that is present and non-empty
Present(v) == v # None /\ Len(v) > 0

\* get_client_ip going on to the next source when the first token of
\* X-Forwarded-For is empty
get_client_ip_skips_empty_token(r) ==
    IF Present(r.xff) /\ Strip(Split(r.xff, ",")[1]) # <<>>
    THEN Return(Strip(Split(r.xff, ",")[1]))
    ELSE IF Present(r.xreal) THEN Return(Strip(r.xreal))
    ELSE IF Present(r.peer) THEN Return(r.peer)
    ELSE Raise(ClientIPDetectionError)

\* get_client_ip taking the last address of X-Forwarded-For
get_client_ip_last_token(r) ==
    IF Present(r.xff) THEN Return(Strip(Split(r.xff, ",")[Len(Split(r.xff, ","))]))
    ELSE IF Present(r.xreal) THEN Return(Strip(r.xreal))
    ELSE IF Present(r.peer) THEN Return(r.peer)
    ELSE Raise(ClientIPDetectionError)

get_client_ip(r) ==
    IF Present(r.xff) THEN Return(Strip(Split(r.xff, ",")[1]))
    ELSE IF Present(r.xreal) THEN Return(Strip(r.xreal))
    ELSE IF Present(r.peer) THEN Return(r.peer)
    ELSE Raise(ClientIPDetectionError)

-----------------------------------------------------------------------------
(* app/services/geolocation.py: GeolocationService.geolocate_ip *)

\* geolocate_ip with its validate_ip_address(ip) statement left out
geolocate_ip_validation_skipped(ip, revised) == Return(<<>>)

\* geolocate_ip letting a well-formed address through whatever its range
geolocate_ip_validation_format_only(ip, revised) ==
    IF /\ validate_ip_address(ip, revised).kind = "raise"
       /\ validate_ip_address(ip, revised).error.exc = "InvalidIPError"
    THEN validate_ip_address(ip, revised)
    ELSE Return(<<>>)

\* the first statement, validate_ip_address(ip): its exception leaves the
\* coroutine, its return value is dropped
geolocate_ip_validation(ip, revised) == validate_ip_address(ip, revised)

\* geolocate_ip rewriting the record's ip to the validated address
geolocate_ip_result_rewrites_ip(ip, fetched) ==
    IF fetched.kind = "return"
    THEN Return([fetched.value EXCEPT !.ip = IpAddress(ip)])
    ELSE fetched

\* geolocate_ip wrapping every provider failure as ProviderUnavailableError
geolocate_ip_result_wraps_errors(ip, fetched) ==
    IF fetched.kind = "raise"
    THEN Raise(ProviderUnavailableError(IPAPIProviderName, <<Lit("lookup failed")>>))
    ELSE fetched

\* the second statement, return await self.provider.get_geolocation(ip)
geolocate_ip_result(ip, fetched) == fetched

-----------------------------------------------------------------------------
(* app/main.py: the exception handler registered for GeolocationError; any *)
(* other exception is answered by the framework with a bare 500             *)

\* geolocation_error_handler answering every error with status 400
geolocation_error_handler_fixed_status(exc) ==
    [status_code |-> 400,
     content |-> [error |-> [type |-> exc.error_type, message |-> exc.message, field |-> None]]]

geolocation_error_handler(exc) ==
    [status_code |-> exc.status_code,
     content |-> [error |-> [type |-> exc.error_type, message |-> exc.message, field |-> None]]]

\* the value of app.__version__
Version == "__version__"

\* health_check reporting "unhealthy" when the provider is not available
health_check_unhealthy(available) ==
    IF available.kind = "raise" THEN available
    ELSE Return([status |-> IF available.value THEN "healthy" ELSE "unhealthy",
                 version |-> Version,
                 provider |-> IPAPIProviderName,
                 provider_status |-> IF available.value THEN "available" ELSE "unavailable"])

\* health_check once service.check_provider_health() has produced `available`
health_check(available) ==
    IF available.kind = "raise" THEN available
    ELSE Return([status |-> IF available.value THEN "healthy" ELSE "degraded",
                 version |-> Version,
                 provider |-> IPAPIProviderName,
                 provider_status |-> IF available.value THEN "available" ELSE "unavailable"])

InternalServerError == [status_code |-> 500, content |-> [detail |-> "Internal Server Error"]]

-----------------------------------------------------------------------------
(* Requests and upstream replies *)

Public8888 == <<"8", ".", "8", ".", "8", ".", "8">>
Public1111 == <<"1", ".", "1", ".", "1", ".", "1">>

LookupQuads == {Dotted(a, b, 0, 1) : a \in {8, 10, 127, 192, 224}, b \in {0, 168}}

\* the ip path parameter of GET /geolocate/{ip}, or the argument of a direct call
LookupInputs ==
    LookupQuads \cup {Public8888, Public1111} \cup StringsUpTo(MaxStrLen) \cup MalformedSamples

XForwardedForValues ==
    { None, <<>>, <<" ">>,
      <<"8", ".", "8", ".", "8", ".", "8", ",", " ", "1", "0", ".", "0", ".", "0", ".", "1">>,
      <<",", " ", "8", ".", "8", ".", "8", ".", "8">>,
      <<"1", "0", ".", "0", ".", "0", ".", "1">> }
XRealIPValues == {None, <<>>, <<" ", "1", ".", "1", ".", "1", ".", "1", " ">>}
PeerValues == {None, <<>>, <<"1", "2", "7", ".", "0", ".", "0", ".", "1">>, Dotted(8, 0, 0, 1)}

Requests == [xff : XForwardedForValues, xreal : XRealIPValues, peer : PeerValues]

Keys == {"status", "country", "countryCode", "regionName", "region", "city", "zip",
         "lat", "lon", "timezone", "isp", "org", "as", "query"}

\* the body ip-api.com sends for a successful lookup of q
Fixture(q) ==
    [k \in Keys |->
        CASE k = "status"      -> JStr(<<"s", "u", "c", "c", "e", "s", "s">>)
          [] k = "country"     -> JStr(<<"U", "S", "A">>)
          [] k = "countryCode" -> JStr(<<"U", "S">>)
          [] k = "regionName"  -> JStr(<<"C", "a", "l">>)
          [] k = "region"      -> JStr(<<"C", "A">>)
          [] k = "city"        -> JStr(<<"M", "V">>)
          [] k = "zip"         -> JStr(<<"9", "4">>)
          [] k = "lat"         -> JNum(37)
          [] k = "lon"         -> JNum(-122)
          [] k = "timezone"    -> JStr(<<"P", "S", "T">>)
          [] k = "isp"         -> JStr(<<"G", "L">>)
          [] k = "org"         -> JStr(<<"G", "D">>)
          [] k = "as"          -> JStr(<<"A", "S", "1", "5", "1", "6", "9", " ", "G", "O", "O", "G", "L", "E">>)
          [] k = "query"       -> JStr(q)]

Drop(d, k) == [x \in DOMAIN d \ {k} |-> d[x]]
With(d, k, v) == [x \in DOMAIN d \cup {k} |-> IF x = k THEN v ELSE d[x]]

Fail == JStr(<<"f", "a", "i", "l">>)

AsValues ==
    { JStr(<<>>), JStr(<<" ">>), JStr(<<"A", "S", "1", "5", "1", "6", "9">>),
      JStr(<<" ", "A", "S", "1", " ", " ", "G", "O", "O", " ", " ", "L", "L", "C", " ">>),
      JNum(7), JNum(0) }

QueryValues ==
    { JStr(Public1111), JStr(<<":", ":", "1">>), JStr(<<"g", "a", "r", "b", "a", "g", "e">>),
      JStr(<<>>), JNum(5) }

\* the parsed dict bodies the upstream may send to a lookup of ip
Bodies(ip) ==
    LET F == Fixture(ip)
    IN  {F}
        \cup {Drop(F, k) : k \in Keys}
        \cup {With(F, k, JNull) : k \in Keys}
        \cup {With(F, "status", Fail), [k \in {"status"} |-> Fail], [k \in {} |-> JNull]}
        \cup {With(F, "as", v) : v \in AsValues}
        \cup {With(F, "query", v) : v \in QueryValues}
        \cup {With(F, "lat", JStr(<<"x">>)), With(F, "lon", JStr(<<"1", "2">>)),
              With(F, "zip", JNum(9)), With(F, "country", JNum(1))}

StatusCodes == {200, 404, 429, 500, 503}

TransportExceptions == {"ReadTimeout", "ConnectTimeout", "ConnectError", "ReadError", "RuntimeError"}

\* what client.get(url) may produce for a lookup of ip
Replies(ip) ==
    {[kind |-> "response", status_code |-> c, body |-> b] :
        c \in StatusCodes,
        b \in {[json |-> "invalid"], [json |-> "list"]}
              \cup {[json |-> "dict", data |-> d] : d \in Bodies(ip)}}
    \cup {[kind |-> "exception", exc |-> e] : e \in TransportExceptions}

\* what the probe's client.get may produce
ProbeReplies ==
    Replies(Public8888)
    \cup {[kind |-> "response", status_code |-> c, body |-> [json |-> "invalid"]] :
             c \in {204, 403}}
    \cup {[kind |-> "exception", exc |-> e] : e \in {"PoolTimeout", "RemoteProtocolError"}}

MockProviderName == "mock-provider"

\* what an injected provider (the tests' MockProvider) may answer
MockOutcomes(ip) ==
    { MapResponse(Fixture(ip)),
      MapResponse(Drop(With(Fixture(ip), "query", JStr(Public1111)), "zip")),
      Raise(IPNotFoundError(ip)),
      Raise(RateLimitError(MockProviderName)),
      Raise(ProviderUnavailableError(MockProviderName, <<Lit("down")>>)) }

-----------------------------------------------------------------------------
(* The application serving requests, one at a time *)

Init ==
    /\ ianaRevised \in BOOLEAN
    /\ pc = "idle"
    /\ raw = None
    /\ vres = NoOutcome
    /\ pub = NoOutcome
    /\ route = NoRoute
    /\ req = NoRequest
    /\ provider = NoRoute
    /\ calls = <<>>
    /\ client = 0
    /\ gets = 0
    /\ upstream = NoOutcome
    /\ provOut = NoOutcome
    /\ out = NoOutcome
    /\ response = NoOutcome
    /\ ClientAtStart

\* GET /api/v1/geolocate/{ip}: the endpoint builds GeolocationService()
ReceiveGeolocateIp ==
    /\ pc = "idle"
    /\ \E ip \in LookupInputs : raw' = ip
    /\ route' = "geolocate_ip"
    /\ provider' = IPAPIProviderName
    /\ pc' = "endpoint"
    /\ UNCHANGED <<ianaRevised, vres, pub, req, calls, client, gets, upstream,
                   provOut, out, response>>
    /\ UNCHANGED <<created, lifecycleVars>>

\* GET /api/v1/geolocate: Depends(get_client_ip) runs before the endpoint
ReceiveGeolocateClientIp ==
    /\ pc = "idle"
    /\ \E r \in Requests :
        /\ req' = r
        /\ IF get_client_ip(r).kind = "return"
           THEN /\ raw' = get_client_ip(r).value
                /\ pc' = "endpoint"
                /\ out' = out
           ELSE /\ raw' = raw
                /\ pc' = "raised"
                /\ out' = get_client_ip(r)
    /\ route' = "geolocate_client_ip"
    /\ provider' = IPAPIProviderName
    /\ UNCHANGED <<ianaRevised, vres, pub, calls, client, gets, upstream, provOut, response>>
    /\ UNCHANGED <<created, lifecycleVars>>

\* GeolocationService(provider=mock).geolocate_ip(ip), called as the unit tests do
CallService ==
    /\ pc = "idle"
    /\ \E ip \in LookupInputs : raw' = ip
    /\ route' = "service"
    /\ provider' = MockProviderName
    /\ pc' = "endpoint"
    /\ UNCHANGED <<ianaRevised, vres, pub, req, calls, client, gets, upstream,
                   provOut, out, response>>
    /\ UNCHANGED <<created, lifecycleVars>>

\* geolocate_ip up to its first suspension: validation, then the provider's
\* get_geolocation up to its await of client.get(url)
GeolocateIp ==
    /\ pc = "endpoint"
    /\ IF geolocate_ip_validation(raw, ianaRevised).kind = "raise"
       THEN /\ out' = geolocate_ip_validation(raw, ianaRevised)
            /\ pc' = "raised"
            /\ UNCHANGED <<calls, client, gets, created>>
       ELSE /\ calls' = Append(calls, raw)
            /\ pc' = "awaiting"
            /\ out' = out
            /\ IF provider = IPAPIProviderName
               THEN /\ client' = get_client(client, created)
                    /\ created' = constructed(created, get_client(client, created))
                    /\ gets' = gets + 1
               ELSE UNCHANGED <<client, gets, created>>
    /\ UNCHANGED <<ianaRevised, raw, vres, pub, route, req, provider, upstream,
                   provOut, response>>
    /\ UNCHANGED lifecycleVars

\* client.get(url) completes; get_geolocation and geolocate_ip run to their end
UpstreamReplies ==
    /\ pc = "awaiting"
    /\ provider = IPAPIProviderName
    /\ \E got \in Replies(raw) :
        /\ upstream' = got
        /\ provOut' = get_geolocation(raw, got)
        /\ out' = geolocate_ip_result(raw, get_geolocation(raw, got))
        /\ gets' = upstream_calls_after(gets, TryBlock(raw, got))
    /\ pc' = IF out'.kind = "return" THEN "returned" ELSE "raised"
    /\ UNCHANGED <<ianaRevised, raw, vres, pub, route, req, provider, calls, client,
                   response>>
    /\ UNCHANGED <<created, lifecycleVars>>

\* the injected provider answers; geolocate_ip runs to its end
MockAnswers ==
    /\ pc = "awaiting"
    /\ provider = MockProviderName
    /\ \E o \in MockOutcomes(raw) :
        /\ provOut' = o
        /\ out' = geolocate_ip_result(raw, o)
    /\ pc' = IF out'.kind = "return" THEN "returned" ELSE "raised"
    /\ UNCHANGED <<ianaRevised, raw, vres, pub, route, req, provider, calls, client,
                   gets, upstream, response>>
    /\ UNCHANGED <<created, lifecycleVars>>

\* GET /health: GeolocationService(), check_provider_health and the
\* provider's check_health up to its await of client.get
ReceiveHealth ==
    /\ pc = "idle"
    /\ route' = "health"
    /\ provider' = IPAPIProviderName
    /\ client' = get_client(client, created)
    /\ created' = constructed(created, get_client(client, created))
    /\ gets' = gets + 1
    /\ pc' = "probing"
    /\ UNCHANGED <<ianaRevised, raw, vres, pub, req, calls, upstream, provOut, out,
                   response>>
    /\ UNCHANGED lifecycleVars

\* the probe's client.get completes; check_health, check_provider_health and
\* health_check run to their end
ProbeCompletes ==
    /\ pc = "probing"
    /\ \E got \in ProbeReplies :
        /\ upstream' = got
        /\ provOut' = check_health(got)
        /\ out' = health_check(check_health(got))
    /\ pc' = IF out'.kind = "return" THEN "returned" ELSE "raised"
    /\ UNCHANGED <<ianaRevised, raw, vres, pub, route, req, provider, calls, client,
                   gets, response>>
    /\ UNCHANGED <<created, lifecycleVars>>

\* the endpoint raised: the registered handler answers a GeolocationError
HandleError ==
    /\ pc = "raised"
    /\ route # "service"
    /\ response' = IF out.error.exc \in GeolocationErrors
                   THEN geolocation_error_handler(out.error)
                   ELSE InternalServerError
    /\ pc' = "responded"
    /\ UNCHANGED <<ianaRevised, raw, vres, pub, route, req, provider, calls, client,
                   gets, upstream, provOut, out>>
    /\ UNCHANGED <<created, lifecycleVars>>

\* the endpoint returned: 200 with the record
SendRecord ==
    /\ pc = "returned"
    /\ route # "service"
    /\ response' = [status_code |-> 200, content |-> out.value]
    /\ pc' = "responded"
    /\ UNCHANGED <<ianaRevised, raw, vres, pub, route, req, provider, calls, client,
                   gets, upstream, provOut, out>>
    /\ UNCHANGED <<created, lifecycleVars>>

\* the request is over; the singleton client outlives it
Finish ==
    /\ \/ pc = "responded"
       \/ pc \in {"raised", "returned"} /\ route = "service"
    /\ pc' = "idle"
    /\ raw' = None
    /\ route' = NoRoute
    /\ req' = NoRequest
    /\ provider' = NoRoute
    /\ calls' = <<>>
    /\ gets' = 0
    /\ upstream' = NoOutcome
    /\ provOut' = NoOutcome
    /\ out' = NoOutcome
    /\ response' = NoOutcome
    /\ UNCHANGED <<ianaRevised, vres, pub, client>>
    /\ UNCHANGED <<created, lifecycleVars>>

Next ==
    \/ ReceiveGeolocateIp
    \/ ReceiveGeolocateClientIp
    \/ CallService
    \/ GeolocateIp
    \/ UpstreamReplies
    \/ MockAnswers
    \/ ReceiveHealth
    \/ ProbeCompletes
    \/ HandleError
    \/ SendRecord
    \/ Finish

Spec == Init /\ [][Next]_vars

-----------------------------------------------------------------------------
(* Request tasks running concurrently with close_client: each task is a     *)
(* lookup of 8.8.8.8 through the default adapter; a step runs from one      *)
(* await to the next                                                        *)

\* what client.get(url) may produce for a task whose client was open when it
\* sent
TaskReplies ==
    {[kind |-> "response", status_code |-> 200,
      body |-> [json |-> "dict", data |-> Fixture(Public8888)]],
     [kind |-> "response", status_code |-> 503, body |-> [json |-> "invalid"]],
     [kind |-> "exception", exc |-> "ReadTimeout"]}

\* client.get(url) on a client that is closed raises RuntimeError
ClosedClientReply == [kind |-> "exception", exc |-> "RuntimeError"]

\* get_geolocation up to its await: client = HTTPClient.get_client(), then
\* client.get(url) is sent on the instance returned
TaskCallsGetClient(t) ==
    /\ tasks[t].pc = "idle"
    /\ client' = get_client(client, created)
    /\ created' = constructed(created, get_client(client, created))
    /\ tasks' = [tasks EXCEPT ![t] = [pc |-> "sending",
                                      held |-> get_client(client, created),
                                      stale |-> get_client(client, created) \in closing,
                                      result |-> NoOutcome]]
    /\ UNCHANGED <<ianaRevised, pc, raw, vres, pub, route, req, provider, calls, gets,
                   upstream, provOut, out, response, closing, closer, closes>>

\* the task's client.get completes and get_geolocation runs to its end
TaskGetsReply(t) ==
    /\ tasks[t].pc = "sending"
    /\ \E got \in IF tasks[t].stale THEN {ClosedClientReply} ELSE TaskReplies :
           tasks' = [tasks EXCEPT ![t].pc = "done",
                                  ![t].result = get_geolocation(Public8888, got)]
    /\ UNCHANGED <<ianaRevised, pc, raw, vres, pub, route, req, provider, calls, client,
                   gets, upstream, provOut, out, response, created, closing, closer,
                   closes>>

\* the task's request is answered; its local reference to the client is gone
TaskEnds(t) ==
    /\ tasks[t].pc = "done"
    /\ tasks' = [tasks EXCEPT ![t] = IdleTask]
    /\ UNCHANGED <<ianaRevised, pc, raw, vres, pub, route, req, provider, calls, client,
                   gets, upstream, provOut, out, response, created, closing, closer,
                   closes>>

\* close_client up to its await: with an empty slot it returns at once,
\* otherwise aclose() of the stored instance has begun
CloseClientBegins ==
    /\ closer = "idle"
    /\ closes < MaxCloses
    /\ closes' = closes + 1
    /\ IF client # 0
       THEN closing' = closing \cup {client} /\ closer' = "aclose"
       ELSE UNCHANGED <<closing, closer>>
    /\ UNCHANGED <<ianaRevised, pc, raw, vres, pub, route, req, provider, calls, client,
                   gets, upstream, provOut, out, response, created, tasks>>

\* aclose() has completed: cls._client = None
CloseClientCompletes ==
    /\ closer = "aclose"
    /\ client' = 0
    /\ closer' = "idle"
    /\ UNCHANGED <<ianaRevised, pc, raw, vres, pub, route, req, provider, calls, gets,
                   upstream, provOut, out, response, created, closing, closes, tasks>>

NextClient ==
    \/ \E t \in Tasks : TaskCallsGetClient(t)
    \/ \E t \in Tasks : TaskGetsReply(t)
    \/ \E t \in Tasks : TaskEnds(t)
    \/ CloseClientBegins
    \/ CloseClientCompletes

SpecClient == Init /\ [][NextClient]_vars

-----------------------------------------------------------------------------
(* Properties of the validator, under SpecValidator *)

Validated == pc \in {"v_validated", "v_done"}

\* the blocks the specification lists: 10/8, 172.16/12, 192.168/16, 127/8,
\* 169.254/16, 224.0.0.0 and above, 0.0.0.0 and 255.255.255.255
InListedBlocks(o) ==
    \/ o[1] = 10
    \/ o[1] = 172 /\ o[2] \in 16..31
    \/ o[1] = 192 /\ o[2] = 168
    \/ o[1] = 127
    \/ o[1] = 169 /\ o[2] = 254
    \/ o[1] >= 224
    \/ o = <<0, 0, 0, 0>>
    \/ o = <<255, 255, 255, 255>>

\* the further special-purpose blocks: 0/8, 192.0.0.0/24, 192.0.2.0/24,
\* 198.18.0.0/15, 198.51.100.0/24, 203.0.113.0/24
InFurtherSpecialBlocks(o) ==
    \/ o[1] = 0
    \/ o[1] = 192 /\ o[2] = 0 /\ o[3] \in {0, 2}
    \/ o[1] = 198 /\ o[2] \in {18, 19}
    \/ o[1] = 198 /\ o[2] = 51 /\ o[3] = 100
    \/ o[1] = 203 /\ o[2] = 0 /\ o[3] = 113

\* C2: every syntactically valid dotted quad in one of the listed blocks makes
\* validate_ip_address raise PrivateIPError; it never returns an address.
C2_ListedBlocksRejected ==
    (Validated /\ ParseIPv4(raw) # <<>> /\ InListedBlocks(ParseIPv4(raw)))
        => (vres.kind = "raise" /\ vres.error = PrivateIPError(raw))

\* 239.255.255.255 (multicast, outside every is_private block) has been rejected
C2_Witness ==
    /\ Validated
    /\ raw = Dotted(239, 255, 255, 255)
    /\ vres.kind = "raise"
    /\ vres.error.exc = "PrivateIPError"

\* C3 as stated: every syntactically valid dotted quad outside the listed
\* blocks passes validation and the parsed address is returned.
C3_OutsideListedBlocksPasses ==
    (Validated /\ ParseIPv4(raw) # <<>> /\ ~InListedBlocks(ParseIPv4(raw)))
        => (vres.kind = "return" /\ vres.value = ParseIPv4(raw))

\* C3 amended: every syntactically valid dotted quad outside the listed blocks
\* and outside the further special-purpose blocks (0/8, 192.0.0.0/24,
\* 192.0.2.0/24, 198.18.0.0/15, 198.51.100.0/24, 203.0.113.0/24) passes
\* validation and the parsed address is returned.
C3_OutsideSpecialBlocksPasses ==
    (/\ Validated
     /\ ParseIPv4(raw) # <<>>
     /\ ~InListedBlocks(ParseIPv4(raw))
     /\ ~InFurtherSpecialBlocks(ParseIPv4(raw)))
        => (vres.kind = "return" /\ vres.value = ParseIPv4(raw))

\* 100.64.0.1 (shared address space, in none of the blocks) has passed
C3_Witness ==
    /\ Validated
    /\ raw = Dotted(100, 64, 0, 1)
    /\ vres.kind = "return"
    /\ vres.value = <<100, 64, 0, 1>>

\* C4: every string that does not parse as a dotted-quad IPv4 literal makes
\* validate_ip_address raise InvalidIPError, never PrivateIPError; IPv6
\* literals, loopback and private ones too, are among them.
C4_UnparsableIsInvalidFormat ==
    (Validated /\ ParseIPv4(raw) = <<>>)
        => (vres.kind = "raise" /\ vres.error = InvalidIPError(raw))

\* the IPv6 loopback literal ::1 has been rejected as invalid_ip
C4_Witness ==
    /\ Validated
    /\ raw = <<":", ":", "1">>
    /\ IsIPv6(raw)
    /\ vres.kind = "raise"
    /\ vres.error.error_type = "invalid_ip"

\* C5: is_valid_public_ipv4 never raises, and returns True exactly when
\* validate_ip_address succeeds on the same string.
C5_IsPublicIffValidates ==
    pc = "v_done"
        => (/\ pub.kind = "return"
            /\ pub.value \in BOOLEAN
            /\ pub.value <=> (vres.kind = "return"))

\* a private address: validate_ip_address raised PrivateIPError and
\* is_valid_public_ipv4 returned False
C5_Witness ==
    /\ pc = "v_done"
    /\ vres.kind = "raise"
    /\ vres.error.exc = "PrivateIPError"
    /\ pub = Return(FALSE)

-----------------------------------------------------------------------------
(* Properties of the lookup pipeline, under Spec *)

\* geolocate_ip(raw) has run its first step
LookupRan == raw # None /\ pc \in {"awaiting", "raised", "returned", "responded"}

\* geolocate_ip(raw) has ended
LookupEnded == raw # None /\ pc \in {"raised", "returned", "responded"}

Raised(outcome, exc) == outcome.kind = "raise" /\ outcome.error.exc = exc

Parts(message) == {message[i] : i \in 1..Len(message)}

\* C1: when validate_ip_address fails on the raw string, geolocate_ip raises
\* that same failure and provider.get_geolocation is not invoked: no call, no
\* upstream request, no provider outcome.
C1_InvalidInputNeverReachesProvider ==
    (LookupRan /\ validate_ip_address(raw, ianaRevised).kind = "raise")
        => (/\ out = validate_ip_address(raw, ianaRevised)
            /\ calls = <<>>
            /\ gets = 0
            /\ provOut = NoOutcome)

\* a private address handed to the service with an injected provider
C1_Witness ==
    /\ route = "service"
    /\ pc = "raised"
    /\ raw = Dotted(192, 168, 0, 1)
    /\ Raised(out, "PrivateIPError")
    /\ calls = <<>>

\* the table of section 6: status code and type string of each variant
TableStatus(exc) ==
    CASE exc = "InvalidIPError"           -> 400
      [] exc = "ClientIPDetectionError"   -> 400
      [] exc = "PrivateIPError"           -> 422
      [] exc = "IPNotFoundError"          -> 404
      [] exc = "RateLimitError"           -> 429
      [] exc = "ProviderUnavailableError" -> 503

TableType(exc) ==
    CASE exc = "InvalidIPError"           -> "invalid_ip"
      [] exc = "ClientIPDetectionError"   -> "client_ip_detection_failed"
      [] exc = "PrivateIPError"           -> "private_ip"
      [] exc = "IPNotFoundError"          -> "ip_not_found"
      [] exc = "RateLimitError"           -> "rate_limit_exceeded"
      [] exc = "ProviderUnavailableError" -> "provider_unavailable"

\* C6: every failure is answered with the status code and type string the
\* table fixes for its variant, in a body {"error": {"type", "message",
\* "field"}} that carries the failure's own message.
C6_FailureAnsweredPerTable ==
    (pc = "responded" /\ out.kind = "raise")
        => (/\ out.error.exc \in GeolocationErrors
            /\ response.status_code = TableStatus(out.error.exc)
            /\ response.content =
                   [error |-> [type |-> TableType(out.error.exc),
                               message |-> out.error.message,
                               field |-> None]])

\* a private address answered 422 private_ip
C6_Witness ==
    /\ pc = "responded"
    /\ Raised(out, "PrivateIPError")
    /\ response.status_code = 422
    /\ response.content.error.type = "private_ip"

\* the upstream answered with an HTTP response and get_geolocation has ended
Replied == LookupEnded /\ upstream.kind = "response"

BodyHasFailMarker ==
    upstream.body.json = "dict" /\ Get(upstream.body.data, "status", JNull) = Fail

\* C7 as stated: 429 gives RateLimited; 500 and above gives Unavailable with
\* the code in the message; an unparsable body gives Unavailable; a parsed
\* body with status "fail" gives NotFound.
C7_ReplyMappingAsStated ==
    Replied
        => (/\ upstream.status_code = 429 => Raised(provOut, "RateLimitError")
            /\ upstream.status_code >= 500
                   => (/\ Raised(provOut, "ProviderUnavailableError")
                       /\ Num(upstream.status_code) \in Parts(provOut.error.message))
            /\ upstream.body.json = "invalid" => Raised(provOut, "ProviderUnavailableError")
            /\ BodyHasFailMarker => Raised(provOut, "IPNotFoundError"))

\* C7 amended: 429 gives RateLimited; 500 and above gives Unavailable with the
\* code in the message; and for a reply whose status is neither 429 nor 500
\* and above, an unparsable body gives Unavailable and a parsed body with
\* status "fail" gives NotFound.
C7_ReplyMappingStatusFirst ==
    Replied
        => (/\ upstream.status_code = 429 => Raised(provOut, "RateLimitError")
            /\ upstream.status_code >= 500
                   => (/\ Raised(provOut, "ProviderUnavailableError")
                       /\ Num(upstream.status_code) \in Parts(provOut.error.message))
            /\ (upstream.status_code # 429 /\ upstream.status_code < 500)
                   => (/\ upstream.body.json = "invalid"
                              => Raised(provOut, "ProviderUnavailableError")
                       /\ BodyHasFailMarker => Raised(provOut, "IPNotFoundError")))

\* a 404 reply whose body carries the fail marker has given NotFound
C7_Witness ==
    /\ Replied
    /\ upstream.status_code = 404
    /\ BodyHasFailMarker
    /\ Raised(provOut, "IPNotFoundError")

\* C8: a lookup through the default adapter ends with a record or with one of
\* InvalidFormat, PrivateOrReserved, NotFound, RateLimited, Unavailable; no
\* other exception leaves geolocate_ip.
C8_LookupEndsTyped ==
    (LookupEnded /\ provider = IPAPIProviderName)
        => \/ out.kind = "return"
           \/ /\ out.kind = "raise"
              /\ out.error.exc \in {"InvalidIPError", "PrivateIPError", "IPNotFoundError",
                                    "RateLimitError", "ProviderUnavailableError"}

\* a body without "query": the KeyError raised while building the record has
\* left the adapter as Unavailable
C8_Witness ==
    /\ Replied
    /\ provider = IPAPIProviderName
    /\ upstream.status_code = 200
    /\ upstream.body.json = "dict"
    /\ "query" \notin DOMAIN upstream.body.data
    /\ ~BodyHasFailMarker
    /\ Raised(out, "ProviderUnavailableError")
    /\ Lit("KeyError") \in Parts(out.error.message)

\* C9: when the provider's get_geolocation returns a record, geolocate_ip
\* returns that record with every field as it was, and the provider was
\* invoked exactly once, with the raw string.
C9_RecordReturnedUnchanged ==
    (LookupEnded /\ provOut.kind = "return")
        => (/\ out.kind = "return"
            /\ out.value = provOut.value
            /\ calls = <<raw>>)

\* the injected provider answered 8.8.8.8 with a record about 1.1.1.1, and
\* that is what the service returned
C9_Witness ==
    /\ LookupEnded
    /\ provider = MockProviderName
    /\ raw = Public8888
    /\ provOut.kind = "return"
    /\ provOut.value.ip.text = Public1111
    /\ out = provOut
    /\ calls = <<Public8888>>

\* C10: when validation succeeds and the provider's get_geolocation raises
\* NotFound, RateLimited or Unavailable, geolocate_ip raises the same exception:
\* same type, status code and message.
C10_ProviderFailurePropagates ==
    (LookupEnded /\ provOut.kind = "raise")
        => (/\ out.kind = "raise"
            /\ out.error = provOut.error
            /\ out.error.exc \in {"IPNotFoundError", "RateLimitError", "ProviderUnavailableError"})

\* the default adapter raised NotFound for a validated address and the
\* service raised it too
C10_Witness ==
    /\ LookupEnded
    /\ validate_ip_address(raw, ianaRevised).kind = "return"
    /\ Raised(provOut, "IPNotFoundError")
    /\ Raised(out, "IPNotFoundError")
    /\ out.error.status_code = 404

-----------------------------------------------------------------------------
(* Properties of the adapter and its callers, under Spec *)

\* the upstream answered the one request of the lookup and the adapter raised
UpstreamCallFailed ==
    /\ LookupEnded
    /\ provider = IPAPIProviderName
    /\ upstream # NoOutcome
    /\ provOut.kind = "raise"

\* C11: there is no retry. A lookup issues at most one upstream call, and once
\* that call has failed the lookup has ended with a typed failure (NotFound,
\* RateLimited or Unavailable) and the count of upstream calls is still one.
C11_NoRetry ==
    /\ gets <= 1
    /\ UpstreamCallFailed
        => (/\ gets = 1
            /\ calls = <<raw>>
            /\ out.kind = "raise"
            /\ out.error.exc \in {"IPNotFoundError", "RateLimitError",
                                  "ProviderUnavailableError"})

\* the one request timed out and the lookup ended as Unavailable after that
\* single call
C11_Witness ==
    /\ UpstreamCallFailed
    /\ upstream.kind = "exception"
    /\ upstream.exc = "ReadTimeout"
    /\ Raised(out, "ProviderUnavailableError")
    /\ gets = 1

\* the part of s before its first comma, all of s when it has none
BeforeComma(s) ==
    LET commas == {i \in 1..Len(s) : s[i] = ","}
    IN  IF commas = {} THEN s
        ELSE SubSeq(s, 1, (CHOOSE i \in commas : \A j \in commas : i <= j) - 1)

\* x is s without its leading and trailing whitespace
IsTrimOf(x, s) ==
    \E i \in 1..(Len(s) + 1), j \in 0..Len(s) :
        /\ x = SubSeq(s, i, j)
        /\ \A k \in 1..(i - 1) : s[k] \in Whitespace
        /\ \A k \in (j + 1)..Len(s) : s[k] \in Whitespace
        /\ x # <<>> => (x[1] \notin Whitespace /\ x[Len(x)] \notin Whitespace)

\* the dependency of GET /geolocate has run on the request req
ClientIpResolved == route = "geolocate_client_ip"

\* C12: get_client_ip gives the first source that is present (there and not
\* empty), in strict priority: the part of X-Forwarded-For before its first
\* comma, trimmed, whatever follows that comma; else X-Real-IP, trimmed; else
\* the peer host as it is. It fails, with ClientIPDetectionError (400,
\* client_ip_detection_failed), exactly when none of the three is present.
C12_ClientIpByPriority ==
    ClientIpResolved =>
        /\ Present(req.xff) => IsTrimOf(raw, BeforeComma(req.xff))
        /\ (~Present(req.xff) /\ Present(req.xreal)) => IsTrimOf(raw, req.xreal)
        /\ (~Present(req.xff) /\ ~Present(req.xreal) /\ Present(req.peer)) => raw = req.peer
        /\ Raised(out, "ClientIPDetectionError")
               <=> (~Present(req.xff) /\ ~Present(req.xreal) /\ ~Present(req.peer))
        /\ Raised(out, "ClientIPDetectionError")
               => (/\ raw = None
                   /\ calls = <<>>
                   /\ out.error.status_code = 400
                   /\ out.error.error_type = "client_ip_detection_failed")

\* X-Forwarded-For "8.8.8.8, 10.0.0.1" with X-Real-IP and a peer host also
\* there: the address is 8.8.8.8
C12_Witness ==
    /\ ClientIpResolved
    /\ Len(Split(req.xff, ",")) = 2
    /\ Present(req.xreal)
    /\ Present(req.peer)
    /\ raw = Public8888

\* GET /health has run to the end of its endpoint function
HealthEnded == route = "health" /\ pc \in {"raised", "returned", "responded"}

\* C13: GET /health never fails: the endpoint returns and the answer is 200.
\* It reports healthy and available exactly when the provider's health check
\* returned true, degraded and unavailable otherwise; the two fields never
\* disagree and "unhealthy" is never reported.
C13_HealthAlwaysAnswers ==
    HealthEnded =>
        /\ out.kind = "return"
        /\ provOut.kind = "return"
        /\ provOut.value
               => (out.value.status = "healthy" /\ out.value.provider_status = "available")
        /\ ~provOut.value
               => (out.value.status = "degraded" /\ out.value.provider_status = "unavailable")
        /\ pc = "responded"
               => (response.status_code = 200 /\ response.content = out.value)

\* the probe met a 503 and /health answered 200 with degraded, unavailable
C13_Witness ==
    /\ route = "health"
    /\ pc = "responded"
    /\ upstream.kind = "response"
    /\ upstream.status_code = 503
    /\ response.status_code = 200
    /\ response.content.status = "degraded"
    /\ response.content.provider_status = "unavailable"

\* the probe has completed
Probed == route = "health" /\ upstream # NoOutcome

\* C14: check_health never raises. It returns true exactly when the probe's
\* request completed with a response whose HTTP status is 200, and false for
\* everything else: any exception of the request, any other status.
C14_CheckHealthNeverRaises ==
    Probed =>
        /\ provOut.kind = "return"
        /\ provOut.value \in BOOLEAN
        /\ provOut.value <=> (upstream.kind = "response" /\ upstream.status_code = 200)

\* the probe's request raised and check_health returned false
C14_Witness ==
    /\ Probed
    /\ upstream.kind = "exception"
    /\ upstream.exc = "ConnectError"
    /\ provOut = Return(FALSE)

\* the adapter's lookup got a reply that reaches the mapping onto the record:
\* status below 500 and not 429, a body that parsed to a dict, no fail marker
OnSuccessPath ==
    /\ Replied
    /\ provider = IPAPIProviderName
    /\ upstream.status_code # 429
    /\ upstream.status_code < 500
    /\ upstream.body.json = "dict"
    /\ ~BodyHasFailMarker

\* the upstream `as` field is a string holding at least one token
AsHasTokens(data) ==
    /\ "as" \in DOMAIN data
    /\ data["as"].t = "str"
    /\ Tokens(data["as"].s) # <<>>

RecordField(k) ==
    CASE k = "country"     -> "country"
      [] k = "countryCode" -> "country_code"
      [] k = "regionName"  -> "region"
      [] k = "region"      -> "region_code"
      [] k = "city"        -> "city"
      [] k = "timezone"    -> "timezone"
      [] k = "isp"         -> "isp"
      [] k = "org"         -> "organization"
      [] k = "query"       -> "ip"

DefaultedStringKeys ==
    {"country", "countryCode", "regionName", "region", "city", "timezone", "isp", "org"}

\* the body is the complete fixture but for the field k, which is missing
OnlyMissing(k) == upstream.body.data = Drop(Fixture(raw), k)

\* what a missing field k must give: a record, with the empty string in the
\* field k is mapped onto (no zip_code when k is zip)
MissingFieldDefaults(k) ==
    /\ (OnlyMissing(k) => provOut.kind = "return")
    /\ (k \notin DOMAIN upstream.body.data /\ provOut.kind = "return")
           => IF k = "zip" THEN provOut.value.zip_code = None
              ELSE IF k = "query" THEN provOut.value.ip.text = <<>>
              ELSE provOut.value[RecordField(k)] = <<>>

\* C16 as stated: on the success path a missing zip gives an absent zip_code
\* and a missing query, country, countryCode, regionName, region, city,
\* timezone, isp or org gives the empty string in its record field, the lookup
\* returning its record.
C16_MissingFieldsAsStated ==
    OnSuccessPath => \A k \in DefaultedStringKeys \cup {"query", "zip"} : MissingFieldDefaults(k)

\* C16: on the success path a missing zip gives an absent zip_code and a
\* missing country, countryCode, regionName, region, city, timezone, isp or org
\* gives the empty string in its record field, the lookup returning its
\* record; a missing query ends the lookup as Unavailable.
C16_MissingFieldsButQuery ==
    OnSuccessPath =>
        /\ \A k \in DefaultedStringKeys \cup {"zip"} : MissingFieldDefaults(k)
        /\ "query" \notin DOMAIN upstream.body.data => Raised(provOut, "ProviderUnavailableError")

\* a body without regionName gave a record whose region is empty
C16_Witness ==
    /\ OnSuccessPath
    /\ OnlyMissing("regionName")
    /\ provOut.kind = "return"
    /\ provOut.value.region = <<>>
    /\ provOut.value.country = <<"U", "S", "A">>

\* the exceptions httpx raises for a refused connection or a failed name
\* resolution (ConnectError) and for a timeout
RefusedTimeoutOrDns ==
    {"ConnectError", "ConnectTimeout", "ReadTimeout", "WriteTimeout", "PoolTimeout"}

\* the adapter's lookup ended and its try block had raised an exception that
\* is not one of the adapter's own
UnexpectedInTry ==
    /\ LookupEnded
    /\ provider = IPAPIProviderName
    /\ upstream # NoOutcome
    /\ TryBlock(raw, upstream).kind = "raise"
    /\ TryBlock(raw, upstream).error.exc \notin GeolocationErrors

\* C17: a refused connection, a timeout or a DNS failure of the upstream call
\* gives Unavailable with the reason "Network error: <exception>"; any other
\* exception that is not the adapter's own gives Unavailable with the reason
\* "Unexpected error: <exception>"; both are Unavailable (503), never NotFound
\* or RateLimited.
C17_NetworkAndUnexpectedErrors ==
    UnexpectedInTry =>
        LET e == TryBlock(raw, upstream).error.exc
        IN  /\ Raised(provOut, "ProviderUnavailableError")
            /\ provOut.error.status_code = 503
            /\ Lit(e) \in Parts(provOut.error.message)
            /\ IF upstream.kind = "exception" /\ e \in RefusedTimeoutOrDns
               THEN Lit("Network error: ") \in Parts(provOut.error.message)
               ELSE Lit("Unexpected error: ") \in Parts(provOut.error.message)

\* the connection was refused: Unavailable, "Network error: ConnectError"
C17_Witness ==
    /\ UnexpectedInTry
    /\ upstream.kind = "exception"
    /\ upstream.exc = "ConnectError"
    /\ Raised(out, "ProviderUnavailableError")
    /\ Lit("Network error: ") \in Parts(out.error.message)

-----------------------------------------------------------------------------
(* Properties of the singleton HTTP client, under SpecClient *)

\* C18: the shared client is get-or-create-once. An instance is constructed
\* only when the slot is empty, and it is then the one stored; a stored
\* instance leaves the slot only when close_client completes, which empties
\* it, so nothing else replaces it; and every get_client hands out the stored
\* instance, the same one for as long as it is stored.
C18_GetOrCreateOnce ==
    [][/\ created' # created
           => (client = 0 /\ created' = created + 1 /\ client' = created')
       /\ (client # 0 /\ client' # client)
           => (closer = "aclose" /\ closer' = "idle" /\ client' = 0)
       /\ \A t \in Tasks :
              (tasks[t].pc = "idle" /\ tasks'[t].pc = "sending")
                  => (/\ tasks'[t].held = client'
                      /\ client # 0 => tasks'[t].held = client)]_vars

\* a second instance was constructed after a completed close, and both tasks
\* hold that one instance
C18_Witness ==
    /\ created = 2
    /\ client = 2
    /\ closer = "idle"
    /\ \A t \in Tasks : tasks[t].pc = "sending" /\ tasks[t].held = 2

\* C19: while close_client is suspended at its await of aclose(), get_client
\* never hands out a client whose close has already begun; and once
\* close_client is not running, every instance that is still open is the one
\* the slot refers to.
C19_NoClosingClientHandedOut ==
    /\ \A t \in Tasks : tasks[t].pc # "idle" => ~tasks[t].stale
    /\ closer = "idle" => \A c \in 1..created : c \notin closing => client = c

-----------------------------------------------------------------------------
(* Order of the status checks and the body inspection, under Spec *)

\* the adapter's lookup got a response
AdapterReplied == Replied /\ provider = IPAPIProviderName

\* the status is below 500 and not 429
StatusPassesChecks == upstream.status_code # 429 /\ upstream.status_code < 500

\* the status checks come first: 429 is RateLimited whatever the body, 500 and
\* above is Unavailable whatever the body, and NotFound is raised only for a
\* status below 500 other than 429 whose body carries the fail marker
StatusChecksFirst ==
    /\ upstream.status_code = 429 => Raised(provOut, "RateLimitError")
    /\ upstream.status_code >= 500
           => (/\ Raised(provOut, "ProviderUnavailableError")
               /\ Num(upstream.status_code) \in Parts(provOut.error.message))
    /\ Raised(provOut, "IPNotFoundError") <=> (StatusPassesChecks /\ BodyHasFailMarker)

\* C20 as stated: the status checks come first, and a record is returned for
\* every status below 500 other than 429 whose body parses and carries no
\* fail marker.
C20_StatusPrecedenceAsStated ==
    AdapterReplied =>
        /\ StatusChecksFirst
        /\ (StatusPassesChecks /\ upstream.body.json # "invalid" /\ ~BodyHasFailMarker)
               => provOut.kind = "return"

\* C20: the status checks come first, and for a status below 500 other than
\* 429 the outcome is the one the same body has under status 200: a body that
\* parses, carries no fail marker and maps onto a valid record gives that
\* record, under a non-429 4xx as well.
C20_StatusPrecedence ==
    AdapterReplied =>
        /\ StatusChecksFirst
        /\ StatusPassesChecks
               => (/\ provOut = get_geolocation(raw, [upstream EXCEPT !.status_code = 200])
                   /\ (upstream.body.json = "dict" /\ upstream.body.data = Fixture(raw))
                          => (provOut.kind = "return" /\ provOut.value.ip.text = raw))

\* a 404 whose body is a complete record without fail marker gave the record
C20_Witness ==
    /\ AdapterReplied
    /\ upstream.status_code = 404
    /\ upstream.body.json = "dict"
    /\ upstream.body.data = Fixture(raw)
    /\ provOut.kind = "return"
    /\ out.kind = "return"

-----------------------------------------------------------------------------
(* The record's address, the frame of a rejected lookup, the forwarding     *)
(* header and the token-less `as`, under Spec                                *)

\* the default adapter's lookup ended with a record
AdapterSucceeded ==
    /\ LookupEnded
    /\ provider = IPAPIProviderName
    /\ out.kind = "return"

\* C21: for every successful lookup through the default adapter, the ip of
\* the returned record is the address that was requested, the validated
\* input string, whatever the upstream body's query holds.
C21_RecordIpIsRequestedAddress ==
    AdapterSucceeded => out.value.ip.text = raw

\* geolocate_ip is about to run on a string the validator rejects
RejectedLookupStarts ==
    pc = "endpoint" /\ validate_ip_address(raw, ianaRevised).kind = "raise"

\* C22: a lookup that fails validation changes no shared state: the singleton
\* slot and the count of constructed clients stay as they were, no upstream
\* request is issued, the provider is not called and the service's provider
\* is the one it had. And no step of a request reassigns the provider the
\* service was constructed with: it changes only when the request is over and
\* the service is gone.
C22_RejectedLookupChangesNothing ==
    [][/\ RejectedLookupStarts
           => (/\ client' = client
               /\ created' = created
               /\ gets' = gets
               /\ calls' = calls
               /\ upstream' = upstream
               /\ provider' = provider)
       /\ (provider # NoRoute /\ pc' # "idle") => provider' = provider]_vars

\* a private address was rejected while no client existed: the slot is still
\* empty, nothing was sent, the provider is the default adapter
C22_Witness ==
    /\ LookupEnded
    /\ route = "geolocate_ip"
    /\ Raised(out, "PrivateIPError")
    /\ client = 0
    /\ created = 0
    /\ gets = 0
    /\ calls = <<>>
    /\ provider = IPAPIProviderName

\* the request carries an X-Forwarded-For header that is not the empty string
ForwardedForGiven == ClientIpResolved /\ req.xff # None /\ req.xff # <<>>

\* C23: with a non-empty X-Forwarded-For, get_client_ip returns its trimmed
\* first token even when that token is empty or no address: X-Real-IP and the
\* peer host are not consulted and ClientIPDetectionError is not raised; the
\* service's validation then rejects such a token, without any provider call,
\* and the answer is 400 invalid_ip. Only an absent or empty header lets the
\* later sources, or ClientIPDetectionError, through.
C23_ForwardedForNeverFallsThrough ==
    /\ ForwardedForGiven
           => (/\ raw # None
               /\ IsTrimOf(raw, BeforeComma(req.xff))
               /\ ~Raised(out, "ClientIPDetectionError")
               /\ (IpAddress(raw).version = 0 /\ LookupEnded)
                      => (Raised(out, "InvalidIPError") /\ calls = <<>>)
               /\ (IpAddress(raw).version = 0 /\ pc = "responded")
                      => (/\ response.status_code = 400
                          /\ response.content.error.type = "invalid_ip"))
    /\ (ClientIpResolved /\ (Raised(out, "ClientIPDetectionError")
                             \/ (raw # None /\ ~IsTrimOf(raw, BeforeComma(req.xff)))))
           => (req.xff = None \/ req.xff = <<>>)

\* X-Forwarded-For ", 8.8.8.8" with X-Real-IP also there: the empty first
\* token was taken and answered 400 invalid_ip
C23_Witness ==
    /\ ForwardedForGiven
    /\ Len(req.xff) > 1
    /\ BeforeComma(req.xff) = <<>>
    /\ Present(req.xreal)
    /\ raw = <<>>
    /\ pc = "responded"
    /\ response.status_code = 400
    /\ response.content.error.type = "invalid_ip"

\* the upstream `as` field is a non-empty string of whitespace only
AsWithoutToken(data) ==
    /\ "as" \in DOMAIN data
    /\ data["as"].t = "str"
    /\ data["as"].s # <<>>
    /\ \A i \in 1..Len(data["as"].s) : data["as"].s[i] \in Whitespace

\* the upstream `as` field is missing or the empty string
AsAbsentOrEmpty(data) == "as" \notin DOMAIN data \/ data["as"] = JStr(<<>>)

\* C24: on the success path, an `as` field that is a non-empty string of
\* whitespace only gives no record: the lookup ends as Unavailable with the
\* reason "Unexpected error: IndexError". An `as` field that is absent or the
\* empty string, in an otherwise complete body, gives a record whose
\* as_number and as_name are both empty.
C24_TokenlessAsIsUnavailable ==
    OnSuccessPath =>
        LET data == upstream.body.data
        IN  /\ AsWithoutToken(data)
                   => (/\ Raised(provOut, "ProviderUnavailableError")
                       /\ Raised(out, "ProviderUnavailableError")
                       /\ Lit("Unexpected error: ") \in Parts(provOut.error.message)
                       /\ "query" \in DOMAIN data
                              => Lit("IndexError") \in Parts(provOut.error.message))
            /\ (AsAbsentOrEmpty(data) /\ Drop(data, "as") = Drop(Fixture(raw), "as"))
                   => (/\ provOut.kind = "return"
                       /\ provOut.value.as_number = <<>>
                       /\ provOut.value.as_name = <<>>)

\* `as` was " " in a body that is complete otherwise: Unavailable, IndexError
C24_Witness ==
    /\ OnSuccessPath
    /\ AsWithoutToken(upstream.body.data)
    /\ Drop(upstream.body.data, "as") = Drop(Fixture(raw), "as")
    /\ Raised(out, "ProviderUnavailableError")
    /\ out.error.status_code = 503
    /\ Lit("IndexError") \in Parts(out.error.message)

=============================================================================
